---- MODULE Spec2Model ----
(***************************************************************************)
(* Model of plugins/modules/uncompress.py: the filename deriver, the three *)
(* decompressors, copyfile and the main() pipeline, over a small file      *)
(* system.  Strings are sequences of one-character strings so that the     *)
(* path and URL operations are computed as Python computes them.           *)
(***************************************************************************)
EXTENDS Integers, Sequences, FiniteSets, TLC

VARIABLES fs, now, inv, runs, dsrc, dres

vars == <<fs, now, inv, runs, dsrc, dres>>

(***************************************************************************)
(* Python string primitives                                                *)
(***************************************************************************)
SetMin(S) == CHOOSE x \in S : \A y \in S : x <= y

SetMax(S) == CHOOSE x \in S : \A y \in S : y <= x

Occ(s, sub) == {k \in 1..(Len(s) - Len(sub) + 1) : SubSeq(s, k, k + Len(sub) - 1) = sub}

\* s.find(sub) + 1: position of the first occurrence, 0 when there is none
Find(s, sub) == IF Occ(s, sub) = {} THEN 0 ELSE SetMin(Occ(s, sub))

\* s.rfind(sub) + 1: position of the last occurrence, 0 when there is none
RFind(s, sub) == IF Occ(s, sub) = {} THEN 0 ELSE SetMax(Occ(s, sub))

\* sub in s
Contains(s, sub) == Occ(s, sub) # {}

StartsWith(s, pre) == Len(pre) <= Len(s) /\ SubSeq(s, 1, Len(pre)) = pre

EndsWith(s, suf) == Len(suf) <= Len(s) /\ SubSeq(s, Len(s) - Len(suf) + 1, Len(s)) = suf

\* s[:-n]
DropLast(s, n) == SubSeq(s, 1, Len(s) - n)

\* s.split(sep, 1)[0]
SplitFirst0(s, sep) == IF Find(s, sep) = 0 THEN s ELSE SubSeq(s, 1, Find(s, sep) - 1)

\* s.split(sep, 1)[1] (only evaluated when sep occurs in s)
SplitFirst1(s, sep) == SubSeq(s, Find(s, sep) + Len(sep), Len(s))

\* s.rsplit(sep, 1)[-1]
RSplitLast(s, sep) == IF RFind(s, sep) = 0 THEN s ELSE SubSeq(s, RFind(s, sep) + Len(sep), Len(s))

(***************************************************************************)
(* os.path                                                                 *)
(***************************************************************************)
Slash == <<"/">>

AllSlashes(s) == \A k \in 1..Len(s) : s[k] = "/"

RECURSIVE RStripSlash(_)
RStripSlash(s) == IF s # <<>> /\ s[Len(s)] = "/" THEN RStripSlash(DropLast(s, 1)) ELSE s

\* os.path.split(p) = <<head, tail>>
split(p) ==
  LET i == RFind(p, Slash)
      head == SubSeq(p, 1, i)
      tail == SubSeq(p, i + 1, Len(p))
  IN  <<IF head # <<>> /\ ~AllSlashes(head) THEN RStripSlash(head) ELSE head, tail>>

basename(p) == SubSeq(p, RFind(p, Slash) + 1, Len(p))

join(a, b) ==
  IF StartsWith(b, Slash) THEN b
  ELSE IF a = <<>> \/ EndsWith(a, Slash) THEN a \o b
  ELSE a \o Slash \o b

\* os.path.splitext(p) = <<root, ext>>; leading dots of the last segment are not an extension
splitext(p) ==
  LET sepIndex == RFind(p, Slash)
      dotIndex == RFind(p, <<".">>)
  IN  IF dotIndex > sepIndex /\ \E k \in (sepIndex + 1)..(dotIndex - 1) : p[k] # "."
      THEN <<SubSeq(p, 1, dotIndex - 1), SubSeq(p, dotIndex, Len(p))>>
      ELSE <<p, <<>> >>

(***************************************************************************)
(* derive_uncompressed_filename                                            *)
(***************************************************************************)
SchemeSep == <<":", "/", "/">>

Schemes == { <<"h","t","t","p">>, <<"h","t","t","p","s">>, <<"f","t","p">>,
             <<"f","t","p","s">>, <<"f","i","l","e">> }

ExtGz == <<".","g","z">>

ExtBz2 == <<".","b","z","2">>

ExtXz == <<".","x","z">>

ExtLzma == <<".","l","z","m","a">>

ExtTxz == <<".","t","x","z">>

ExtTlz == <<".","t","l","z">>

ExtTar == <<".","t","a","r">>

\* mutant: the query string is not cut off the last URL segment
source_filename_keepquery(src) ==
  IF Contains(src, SchemeSep) /\ \E sch \in Schemes : StartsWith(src, sch \o SchemeSep)
  THEN RSplitLast(SplitFirst1(src, SchemeSep), Slash)
  ELSE basename(src)

\* the name the suffix rules are applied to
source_filename(src) ==
  IF Contains(src, SchemeSep) /\ \E sch \in Schemes : StartsWith(src, sch \o SchemeSep)
  THEN SplitFirst0(RSplitLast(SplitFirst1(src, SchemeSep), Slash), <<"?">>)
  ELSE basename(src)

strip_extension(filename) ==
  IF EndsWith(filename, ExtGz) THEN DropLast(filename, 3)
  ELSE IF EndsWith(filename, ExtBz2) THEN DropLast(filename, 4)
  ELSE IF EndsWith(filename, ExtXz) THEN DropLast(filename, 3)
  ELSE IF EndsWith(filename, ExtLzma) THEN DropLast(filename, 5)
  ELSE IF EndsWith(filename, ExtTxz) THEN DropLast(filename, 4) \o ExtTar
  ELSE IF EndsWith(filename, ExtTlz) THEN DropLast(filename, 4) \o ExtTar
  ELSE filename

derive_uncompressed_filename(src) == strip_extension(source_filename(src))

(***************************************************************************)
(* The file system.  A file is a record; fs maps the paths of the existing *)
(* regular files to their records.  The directories are fixed.             *)
(***************************************************************************)
MaxTime == 1

MaxRuns == 2

tempdir == <<"/","t","m","p","/">>

Dirs == { <<"/">>, <<"/","t","m","p">>, <<"/","d">> }

IsDir(p) == p # <<>> /\ (IF AllSlashes(p) THEN Slash ELSE RStripSlash(p)) \in Dirs

IsFile(f, p) == p \in DOMAIN f

PathExists(f, p) == IsFile(f, p) \/ IsDir(p)

MkFile(k, d, o, r, t) == [kind |-> k, data |-> d, ok |-> o, rd |-> r, mtime |-> t]

RawFile(d, t) == MkFile("raw", d, TRUE, TRUE, t)

\* os.path.getsize: a compressed container is never empty
Size(x) == IF x.kind = "raw" THEN Len(x.data) ELSE Len(x.data) + 1

SameBytes(x, y) == x.kind = y.kind /\ x.data = y.data /\ x.ok = y.ok

Put(f, p, x) == [q \in DOMAIN f \cup {p} |-> IF q = p THEN x ELSE f[q]]

Del(f, p) == [q \in DOMAIN f \ {p} |-> f[q]]

\* shutil.move(a, b) of an existing file a; the modification time travels with the file
Move(f, a, b) == IF a = b THEN f ELSE Del(Put(f, b, f[a]), a)

(***************************************************************************)
(* filetype: the output of `file -b -i`                                    *)
(***************************************************************************)
MimeGzip == <<"a","p","p","l","i","c","a","t","i","o","n","/","g","z","i","p">>

MimeBzip2 == <<"a","p","p","l","i","c","a","t","i","o","n","/","x","-","b","z","i","p","2">>

MimeXz == <<"a","p","p","l","i","c","a","t","i","o","n","/","x","-","x","z">>

MimeOctet == <<"a","p","p","l","i","c","a","t","i","o","n","/","o","c","t","e","t">>

MimeEmpty == <<"i","n","o","d","e","/","x","-","e","m","p","t","y">>

MimeNone == <<"c","a","n","n","o","t"," ","o","p","e","n">>

filetype(f, src) ==
  IF ~IsFile(f, src) THEN MimeNone
  ELSE IF Size(f[src]) = 0 THEN MimeEmpty
  ELSE IF f[src].kind = "gzip" THEN MimeGzip
  ELSE IF f[src].kind = "bzip2" THEN MimeBzip2
  ELSE IF f[src].kind = "xz" THEN MimeXz
  ELSE MimeOctet

NeedleGzip == <<"g","z","i","p">>

NeedleBzip2 == <<"x","-","b","z","i","p","2">>

NeedleXz == <<"x","-","x","z">>

\* the branch main() takes on the detected type
dispatch(ftype) ==
  IF Contains(ftype, NeedleGzip) THEN "ungzip"
  ELSE IF Contains(ftype, NeedleBzip2) THEN "unbzip"
  ELSE IF Contains(ftype, NeedleXz) THEN "unxzip"
  ELSE "unsupported"

(***************************************************************************)
(* Failure messages: the format string and its arguments                   *)
(***************************************************************************)
NoFail == [fmt |-> "", args |-> <<>>]

Fail(fmt, args) == [fmt |-> fmt, args |-> args]

MsgTransfer == "Source '%s' failed to transfer"

MsgDownload == "Failure downloading %s, %s"

MsgMissing == "Source '%s' does not exist"

MsgZero == "Invalid archive '%s', the file is 0 bytes"

MsgUnreadable == "Source '%s' not readable"

MsgDestDir == "Destination '%s' is not a directory"

MsgUnsupported == "Filetype not supported by uncompress module. %s"

MsgXzSuffix == "xz does not understand suffix %s"

MsgXzMissing == "%s should have uncompressed to %s, but alas it did not"

MsgAttrs == "Unexpected error when accessing exploded file: %s"

MsgDecoder == "%s"

MsgTraceback == "uncaught exception"

(***************************************************************************)
(* The decompressors.  Each returns the file system it leaves, its msg,    *)
(* the fail_json it called itself (unxzip), and err: whether the decoder   *)
(* or the external command failed.                                         *)
(***************************************************************************)
\* the stream copy shared by ungzip and unbzip: open src, open(dest, 'wb'), copyfileobj
stream_copy(f, t, src, dest, fmt) ==
  IF ~IsFile(f, src)
  THEN [fs |-> f, msg |-> "No such file or directory", fail |-> NoFail, err |-> TRUE]
  ELSE LET f1 == Put(f, dest, RawFile(<<>>, t))
           s == f1[src]
       IN  IF Size(s) = 0
           THEN [fs |-> f1, msg |-> "", fail |-> NoFail, err |-> FALSE]
           ELSE IF s.kind # fmt
           THEN [fs |-> f1, msg |-> "Invalid data stream", fail |-> NoFail, err |-> TRUE]
           ELSE IF s.ok
           THEN [fs |-> Put(f1, dest, RawFile(s.data, t)), msg |-> "", fail |-> NoFail, err |-> FALSE]
           ELSE [fs |-> Put(f1, dest, RawFile(s.data, t)),
                 msg |-> "Compressed file ended before the end-of-stream marker was reached",
                 fail |-> NoFail, err |-> TRUE]

ungzip(f, t, src, dest) == stream_copy(f, t, src, dest, "gzip")

unbzip(f, t, src, dest) == stream_copy(f, t, src, dest, "bzip2")

\* the name xz -d gives its output
xz_output(src) ==
  IF EndsWith(src, ExtXz) THEN DropLast(src, 3)
  ELSE IF EndsWith(src, ExtLzma) THEN DropLast(src, 5)
  ELSE DropLast(src, 4) \o ExtTar

\* `xz -k -d src` succeeds on a sound xz stream whose output file does not exist yet
xz_succeeds(f, src) == IsFile(f, src) /\ f[src].kind = "xz" /\ f[src].ok /\ ~IsFile(f, xz_output(src))

xz_command(f, t, src) ==
  IF xz_succeeds(f, src) THEN Put(f, xz_output(src), RawFile(f[src].data, t)) ELSE f

unxzip(f, t, src, dest) ==
  LET prefix == splitext(src)[1]
      suffix == splitext(src)[2]
      ufile == IF suffix \in {ExtXz, ExtLzma} THEN prefix ELSE prefix \o ExtTar
      f1 == xz_command(f, t, src)
  IN  IF suffix \notin {ExtXz, ExtLzma, ExtTxz, ExtTlz}
      THEN [fs |-> f, msg |-> "", fail |-> Fail(MsgXzSuffix, <<suffix>>), err |-> TRUE]
      ELSE IF ~IsFile(f1, ufile)
      THEN [fs |-> f1, msg |-> "", fail |-> Fail(MsgXzMissing, <<src, ufile>>), err |-> TRUE]
      ELSE [fs |-> Move(f1, ufile, dest), msg |-> "", fail |-> NoFail, err |-> ~xz_succeeds(f, src)]

(***************************************************************************)
(* copyfile                                                                *)
(***************************************************************************)
\* filecmp.cmp(a, b, shallow=True): equal os.stat signatures (type, size, mtime) are taken as equal
filecmp_cmp(f, a, b) ==
  IF Size(f[a]) = Size(f[b]) /\ f[a].mtime = f[b].mtime THEN TRUE
  ELSE IF Size(f[a]) # Size(f[b]) THEN FALSE
  ELSE SameBytes(f[a], f[b])

\* mutant: the fast path compares the bytes instead of the sizes
copyfile_fast_bytes(f, src, dest, deep_check) ==
  IF ~IsFile(f, src) THEN [fs |-> f, changed |-> FALSE, exc |-> TRUE]
  ELSE IF IsFile(f, dest)
  THEN LET nodiff == IF deep_check THEN filecmp_cmp(f, src, dest) ELSE SameBytes(f[src], f[dest])
       IN  IF ~nodiff THEN [fs |-> Move(f, src, dest), changed |-> TRUE, exc |-> FALSE]
           ELSE [fs |-> f, changed |-> FALSE, exc |-> FALSE]
  ELSE [fs |-> Move(f, src, dest), changed |-> TRUE, exc |-> FALSE]

\* exc: an OSError left copyfile because the temp file is gone
copyfile(f, src, dest, deep_check) ==
  IF ~IsFile(f, src) THEN [fs |-> f, changed |-> FALSE, exc |-> TRUE]
  ELSE IF IsFile(f, dest)
  THEN LET nodiff == IF deep_check THEN filecmp_cmp(f, src, dest) ELSE Size(f[dest]) = Size(f[src])
       IN  IF ~nodiff THEN [fs |-> Move(f, src, dest), changed |-> TRUE, exc |-> FALSE]
           ELSE [fs |-> f, changed |-> FALSE, exc |-> FALSE]
  ELSE [fs |-> Move(f, src, dest), changed |-> TRUE, exc |-> FALSE]

(***************************************************************************)
(* The files and the module arguments the invocations are run on           *)
(***************************************************************************)
InD(name) == <<"/","d","/">> \o name

SrcGz == InD(<<"a",".","g","z">>)

SrcGzBad == InD(<<"k",".","g","z">>)

SrcBz == InD(<<"a",".","b","z","2">>)

SrcXz == InD(<<"b",".","x","z">>)

SrcXzBad == InD(<<"c",".","x","z">>)

SrcEmpty == InD(<<"e",".","g","z">>)

SrcMissing == InD(<<"m",".","g","z">>)

SrcPlain == InD(<<"t",".","g","z">>)

SrcLocked == InD(<<"u",".","g","z">>)

SrcUrl == <<"h","t","t","p",":","/","/","h","/","a">>

Stale == InD(<<"c">>)

SrcInputs == {SrcGz, SrcGzBad, SrcBz, SrcXz, SrcXzBad, SrcEmpty, SrcMissing, SrcPlain, SrcLocked, SrcUrl}

DestFile == InD(<<"a">>)

DestInTmp == tempdir \o <<"a">>

DestDir == <<"/","d">>

DestNoDir == <<"/","n","/","a">>

DestInputs == {DestFile, DestInTmp, DestDir, DestNoDir}

ConcSrcInputs == {SrcGz, SrcBz, SrcXz}

ConcDestInputs == {DestFile, DestInTmp}

DataA == <<1, 2>>

DataB == <<2, 1>>

DataC == <<3>>

DataOld == <<9>>

InitFs ==
  [p \in {SrcGz, SrcGzBad, SrcBz, SrcXz, SrcXzBad, SrcEmpty, SrcPlain, SrcLocked, Stale} |->
     CASE p = SrcGz -> MkFile("gzip", DataA, TRUE, TRUE, 0)
       [] p = SrcGzBad -> MkFile("gzip", DataC, FALSE, TRUE, 0)
       [] p = SrcBz -> MkFile("bzip2", DataC, TRUE, TRUE, 0)
       [] p = SrcXz -> MkFile("xz", DataB, TRUE, TRUE, 0)
       [] p = SrcXzBad -> MkFile("xz", DataA, FALSE, TRUE, 0)
       [] p = SrcEmpty -> RawFile(<<>>, 0)
       [] p = SrcPlain -> RawFile(DataC, 0)
       [] p = SrcLocked -> MkFile("gzip", DataA, TRUE, FALSE, 0)
       [] p = Stale -> RawFile(DataOld, 0)]

\* what fetch_url can answer
Responses ==
  { [status |-> "200", body |-> MkFile("gzip", DataA, TRUE, TRUE, 0)],
    [status |-> "200", body |-> RawFile(DataC, 0)],
    [status |-> "200", body |-> RawFile(<<>>, 0)],
    [status |-> "404", body |-> RawFile(<<>>, 0)] }

(***************************************************************************)
(* main(): one record per invocation                                       *)
(***************************************************************************)
\* the derived name, once derive_uncompressed_filename has run
NoName == [done |-> FALSE, name |-> <<>>]

Procs == {1, 2}

Main == 1

NoFile == MkFile("none", <<>>, FALSE, FALSE, 0)

NoCopy == [called |-> FALSE, existed |-> FALSE, srcfile |-> NoFile, destfile |-> NoFile, last |-> FALSE]

NoFirst == [valid |-> FALSE, changed |-> FALSE, attr |-> "", absent |-> FALSE, srcimg |-> NoFile]

IdleInv ==
  [pc |-> "idle", psrc |-> <<>>, pdest |-> <<>>, copy |-> FALSE, deep_check |-> FALSE,
   src |-> <<>>, dest |-> <<>>, fdir |-> <<>>, ffile |-> <<>>, tempsrc |-> <<>>,
   ftype |-> <<>>, route |-> "", changed |-> FALSE, status |-> "", fail |-> NoFail,
   fs0 |-> <<>>, srcimg |-> NoFile, detected |-> FALSE, decomp |-> "", decerr |-> FALSE,
   cf |-> NoCopy, attr |-> "", call |-> 0, first |-> NoFirst]

\* os.path.expanduser
expanduser(p) ==
  IF StartsWith(p, <<"~">>) /\ (Len(p) = 1 \/ p[2] = "/") THEN <<"/","d">> \o SubSeq(p, 2, Len(p)) ELSE p

\* dest as main() resolves it: a directory gets the derived file name
resolve_dest(src, dest) ==
  IF IsDir(dest) THEN join(dest, derive_uncompressed_filename(src)) ELSE dest

\* mutant: the temp path keeps the destination's directory
tempsrc_of_fullpath(dest) == join(tempdir, dest)

\* fdir, ffile = os.path.split(dest); tempsrc = os.path.join(tempdir, ffile)
tempsrc_of(dest) == join(tempdir, split(dest)[2])

\* mutant: the destination directory is checked before the size of the source
preconditions_dirfirst(f, src, dest, fdir) ==
  IF ~IsDir(fdir) THEN Fail(MsgDestDir, <<dest>>)
  ELSE IF ~IsFile(f, src) THEN Fail(MsgUnreadable, <<src>>)
  ELSE IF Size(f[src]) = 0 THEN Fail(MsgZero, <<src>>)
  ELSE IF ~f[src].rd THEN Fail(MsgUnreadable, <<src>>)
  ELSE NoFail

\* the checks between the arrival of the source and the detection of its type
preconditions(f, src, dest, fdir) ==
  IF ~IsFile(f, src) THEN Fail(MsgUnreadable, <<src>>)
  ELSE IF Size(f[src]) = 0 THEN Fail(MsgZero, <<src>>)
  ELSE IF ~IsDir(fdir) THEN Fail(MsgDestDir, <<dest>>)
  ELSE IF ~f[src].rd THEN Fail(MsgUnreadable, <<src>>)
  ELSE NoFail

Started(s, d, c, dc, f, n, first) ==
  LET dest == resolve_dest(expanduser(s), expanduser(d))
  IN  [IdleInv EXCEPT !.pc = "source", !.psrc = s, !.pdest = d, !.copy = c, !.deep_check = dc,
                      !.src = expanduser(s), !.dest = dest,
                      !.fdir = split(dest)[1], !.ffile = split(dest)[2],
                      !.fs0 = f, !.call = n, !.first = first]

Failed(r, fl) == [r EXCEPT !.pc = "done", !.status = "failed", !.fail = fl]

Begin(i) ==
  /\ inv[i].pc = "idle"
  /\ runs < MaxRuns
  /\ runs' = runs + 1
  /\ \E s \in SrcInputs, d \in DestInputs, c \in BOOLEAN, dc \in BOOLEAN :
       inv' = [inv EXCEPT ![i] = Started(s, d, c, dc, fs, 1, NoFirst)]
  /\ UNCHANGED <<fs, now, dsrc, dres>>

\* one of two invocations started side by side
BeginConc(i) ==
  /\ inv[i].pc = "idle"
  /\ \E s \in ConcSrcInputs, d \in ConcDestInputs, c \in BOOLEAN, dc \in BOOLEAN :
       inv' = [inv EXCEPT ![i] = Started(s, d, c, dc, fs, 1, NoFirst)]
  /\ UNCHANGED <<fs, now, runs, dsrc, dres>>

\* the same task is run a second time
Again(i) ==
  /\ inv[i].pc = "done" /\ inv[i].status = "ok" /\ inv[i].call = 1
  /\ runs < MaxRuns
  /\ runs' = runs + 1
  /\ inv' = [inv EXCEPT ![i] =
       Started(inv[i].psrc, inv[i].pdest, inv[i].copy, inv[i].deep_check, fs, 2,
               [valid |-> TRUE, changed |-> inv[i].changed, attr |-> inv[i].attr,
                absent |-> ~IsFile(inv[i].fs0, inv[i].dest), srcimg |-> inv[i].srcimg])]
  /\ UNCHANGED <<fs, now, dsrc, dres>>

Exit(i) ==
  /\ inv[i].pc = "done"
  /\ inv' = [inv EXCEPT ![i] = IdleInv]
  /\ UNCHANGED <<fs, now, runs, dsrc, dres>>

CheckSource(i) ==
  LET r == inv[i]
      package == join(tempdir, RSplitLast(r.src, Slash))
  IN  /\ r.pc = "source"
      /\ IF PathExists(fs, r.src)
         THEN inv' = [inv EXCEPT ![i].pc = "pre"] /\ fs' = fs
         ELSE IF r.copy
         THEN inv' = [inv EXCEPT ![i] = Failed(r, Fail(MsgTransfer, <<r.src>>))] /\ fs' = fs
         ELSE IF Contains(r.src, SchemeSep)
         THEN \E rsp \in Responses :
                IF rsp.status # "200"
                THEN inv' = [inv EXCEPT ![i] = Failed(r, Fail(MsgDownload, <<r.src, rsp.status>>))] /\ fs' = fs
                ELSE /\ fs' = Put(fs, package, [rsp.body EXCEPT !.mtime = now])
                     /\ inv' = [inv EXCEPT ![i].pc = "pre", ![i].src = package]
         ELSE inv' = [inv EXCEPT ![i] = Failed(r, Fail(MsgMissing, <<r.src>>))] /\ fs' = fs
      /\ UNCHANGED <<now, runs, dsrc, dres>>

Preconditions(i) ==
  LET r == inv[i]
      fl == preconditions(fs, r.src, r.dest, r.fdir)
      r1 == [r EXCEPT !.srcimg = IF IsFile(fs, r.src) THEN [fs[r.src] EXCEPT !.mtime = 0] ELSE NoFile]
  IN  /\ r.pc = "pre"
      /\ inv' = [inv EXCEPT ![i] =
           IF fl # NoFail THEN Failed(r1, fl)
           ELSE [r1 EXCEPT !.pc = "detect", !.tempsrc = tempsrc_of(r.dest)]]
      /\ UNCHANGED <<fs, now, runs, dsrc, dres>>

Detect(i) ==
  LET r == inv[i]
      ftype == filetype(fs, r.src)
      r1 == [r EXCEPT !.ftype = ftype, !.route = dispatch(ftype), !.detected = TRUE]
  IN  /\ r.pc = "detect"
      /\ inv' = [inv EXCEPT ![i] =
           IF r1.route = "unsupported" THEN Failed(r1, Fail(MsgUnsupported, <<ftype>>))
           ELSE [r1 EXCEPT !.pc = "decompress"]]
      /\ UNCHANGED <<fs, now, runs, dsrc, dres>>

Decompress(i) ==
  LET r == inv[i]
      res == CASE r.route = "ungzip" -> ungzip(fs, now, r.src, r.tempsrc)
               [] r.route = "unbzip" -> unbzip(fs, now, r.src, r.tempsrc)
               [] OTHER -> unxzip(fs, now, r.src, r.tempsrc)
      r1 == [r EXCEPT !.decomp = r.route, !.decerr = res.err]
  IN  /\ r.pc = "decompress"
      /\ fs' = res.fs
      /\ inv' = [inv EXCEPT ![i] =
           IF res.fail # NoFail THEN Failed(r1, res.fail)
           ELSE IF res.msg # "" THEN Failed(r1, Fail(MsgDecoder, <<res.msg>>))
           ELSE [r1 EXCEPT !.pc = "copy"]]
      /\ UNCHANGED <<now, runs, dsrc, dres>>

Materialize(i) ==
  LET r == inv[i]
      res == copyfile(fs, r.tempsrc, r.dest, r.deep_check)
      seen == [called |-> TRUE, existed |-> IsFile(fs, r.dest),
               srcfile |-> IF IsFile(fs, r.tempsrc) THEN fs[r.tempsrc] ELSE NoFile,
               destfile |-> IF IsFile(fs, r.dest) THEN fs[r.dest] ELSE NoFile,
               last |-> res.changed]
  IN  /\ r.pc = "copy"
      /\ fs' = res.fs
      /\ inv' = [j \in Procs |->
           IF j # i THEN [inv[j] EXCEPT !.cf.last = (@ /\ ~res.changed)]
           ELSE IF res.exc THEN Failed([r EXCEPT !.cf = seen], Fail(MsgTraceback, <<>>))
           ELSE [r EXCEPT !.pc = "attrs", !.changed = res.changed, !.cf = seen]]
      /\ UNCHANGED <<now, runs, dsrc, dres>>

\* set_fs_attributes_if_different: nothing to change, attributes changed, or an I/O error
Finalize(i) ==
  LET r == inv[i]
  IN  /\ r.pc = "attrs"
      /\ \E a \in {"same", "changed", "error"} :
           inv' = [inv EXCEPT ![i] =
             IF a = "error" THEN Failed([r EXCEPT !.attr = a], Fail(MsgAttrs, <<r.dest>>))
             ELSE [r EXCEPT !.pc = "done", !.status = "ok", !.attr = a,
                            !.changed = (r.changed \/ a = "changed")]]
      /\ UNCHANGED <<fs, now, runs, dsrc, dres>>

\* the clock the modification times are read from
Tick ==
  /\ now < MaxTime
  /\ now' = now + 1
  /\ UNCHANGED <<fs, inv, runs, dsrc, dres>>

Init ==
  /\ fs = InitFs
  /\ now = 0
  /\ inv = [i \in Procs |-> IdleInv]
  /\ runs = 0
  /\ dsrc = <<>>
  /\ dres = NoName

\* one invocation at a time
Next ==
  \/ Begin(Main)
  \/ Again(Main)
  \/ Exit(Main)
  \/ CheckSource(Main)
  \/ Preconditions(Main)
  \/ Detect(Main)
  \/ Decompress(Main)
  \/ Materialize(Main)
  \/ Finalize(Main)
  \/ Tick

Spec == Init /\ [][Next]_vars

\* two invocations, each run once, interleaved at the steps of main()
NextConc ==
  \/ \E i \in Procs : BeginConc(i)
  \/ \E i \in Procs : CheckSource(i)
  \/ \E i \in Procs : Preconditions(i)
  \/ \E i \in Procs : Detect(i)
  \/ \E i \in Procs : Decompress(i)
  \/ \E i \in Procs : Materialize(i)
  \/ \E i \in Procs : Finalize(i)
  \/ Tick

SpecConc == Init /\ [][NextConc]_vars

(***************************************************************************)
(* derive_uncompressed_filename on its own: the inputs are put together    *)
(* from a scheme or root, directories, a stem, a suffix and a query        *)
(***************************************************************************)
Prefixes == { <<>>, <<"/">>, <<"h","t","t","p",":","/","/">>, <<"h","t","t","p","s",":","/","/">>, <<"f","t","p",":","/","/">>, <<"f","t","p","s",":","/","/">>, <<"f","i","l","e",":","/","/">>, <<"s","f","t","p",":","/","/">>, <<"c",":","/","/">> }

Folders == { <<>>, <<"h","/">>, <<"h","/","d","/">> }

Stems == { <<>>, <<"f">>, <<"a","r","c","h","i","v","e",".","t","a","r">>, <<"a",".","g","z">> }

Suffixes == { <<>>, ExtGz, ExtBz2, ExtXz, ExtLzma, ExtTxz, ExtTlz, <<".","z","i","p">>, <<"g","z">>, <<".","G","Z">> }

Queries == { <<>>, <<"?","v","=","1">>, <<"?","p","=","a","/","b",".","g","z">>, <<"?","x",".","x","z">> }

ExPkg == <<"p","k","g",".","t","x","z">>

ExArchive == <<"a","r","c","h","i","v","e",".","t","a","r",".","g","z">>

ExUrl == <<"h","t","t","p","s",":","/","/","e","x","a","m","p","l","e",".","c","o","m","/","d","o","w","n","l","o","a","d","/","f","i","l","e",".","g","z","?","v","e","r","s","i","o","n","=","1",".","0","&","t","o","k","e","n","=","a","b","c">>

DeriveInputs ==
  {a \o b \o c \o d \o e : a \in Prefixes, b \in Folders, c \in Stems, d \in Suffixes, e \in Queries}
    \cup {ExPkg, ExArchive, ExUrl}

InitDerive ==
  /\ fs = InitFs
  /\ now = 0
  /\ inv = [i \in Procs |-> IdleInv]
  /\ runs = 0
  /\ dsrc \in DeriveInputs
  /\ dres = NoName

Derive ==
  /\ ~dres.done
  /\ dres' = [done |-> TRUE, name |-> derive_uncompressed_filename(dsrc)]
  /\ UNCHANGED <<fs, now, inv, runs, dsrc>>

SpecDerive == InitDerive /\ [][Derive]_vars

(***************************************************************************)
(* Properties                                                              *)
(***************************************************************************)
SamePath(f, g, p) == (IsFile(f, p) <=> IsFile(g, p)) /\ (IsFile(f, p) => f[p] = g[p])

Compressed == {"gzip", "bzip2", "xz"}

\* C1: two successive successful runs of the same task on a sound compressed source,
\* with the destination absent before the first and no attribute change in either,
\* report changed on the first run and unchanged on the second, and the destination
\* then holds the decompressed bytes (stated for a local source and runs whose
\* decompressor did not fail).
C1_Idempotent ==
  LET r == inv[Main]
  IN  (/\ r.pc = "done" /\ r.status = "ok" /\ r.call = 2
       /\ r.first.absent /\ r.first.attr = "same" /\ r.attr = "same"
       /\ r.first.srcimg = r.srcimg /\ r.srcimg.kind \in Compressed /\ r.srcimg.ok
       /\ ~r.decerr /\ r.src = r.psrc)
      => /\ r.first.changed
         /\ ~r.changed
         /\ IsFile(fs, r.dest)
         /\ fs[r.dest].kind = "raw"
         /\ fs[r.dest].data = r.srcimg.data

\* C2: with deep_check and an existing destination, a temp file of the same size but
\* different bytes is moved over the destination and reported as changed; unchanged
\* is reported only for byte-for-byte equal files.
C2_DeepCompare ==
  LET r == inv[Main]
  IN  (r.pc = "attrs" /\ r.cf.called /\ r.deep_check /\ r.cf.existed)
      => /\ (Size(r.cf.srcfile) = Size(r.cf.destfile) /\ ~SameBytes(r.cf.srcfile, r.cf.destfile))
              => (r.changed /\ IsFile(fs, r.dest) /\ fs[r.dest] = r.cf.srcfile)
         /\ ~r.changed => SameBytes(r.cf.srcfile, r.cf.destfile)

\* C3: after a successful run no file is left at the temp path of the decompressed
\* output (stated for a temp path that is not the destination itself).
C3_TempRemoved ==
  LET r == inv[Main]
  IN  (r.pc = "done" /\ r.status = "ok" /\ r.tempsrc # r.dest) => ~IsFile(fs, r.tempsrc)

\* C4: without deep_check and with an existing destination, copyfile decides on the
\* two sizes alone: equal sizes report unchanged and leave the destination as it was,
\* different sizes put the temp file at the destination and report changed.
C4_FastCompare ==
  LET r == inv[Main]
  IN  (r.pc = "attrs" /\ r.cf.called /\ ~r.deep_check /\ r.cf.existed)
      => IF Size(r.cf.srcfile) = Size(r.cf.destfile)
         THEN ~r.changed /\ IsFile(fs, r.dest) /\ fs[r.dest] = r.cf.destfile
         ELSE r.changed /\ IsFile(fs, r.dest) /\ fs[r.dest] = r.cf.srcfile

\* an equal-sized destination with other bytes was kept and reported unchanged
C4_Witness ==
  LET r == inv[Main]
  IN  /\ r.pc = "attrs" /\ r.cf.called /\ ~r.deep_check /\ r.cf.existed
      /\ r.tempsrc # r.dest
      /\ Size(r.cf.srcfile) = Size(r.cf.destfile)
      /\ ~SameBytes(r.cf.srcfile, r.cf.destfile)
      /\ ~r.changed

\* C5: when the decoder or the external xz command has failed, the run never reaches
\* copyfile and never reports success.
C5_DecompressFailureTerminal ==
  LET r == inv[Main]
  IN  r.decerr => (~r.cf.called /\ r.status # "ok")

EarlyFailures == {MsgTransfer, MsgMissing, MsgZero, MsgUnreadable, MsgDestDir, MsgUnsupported}

\* C6: a run that ends with a precondition failure or with an unsupported type has
\* called no decompressor and has created or modified neither the temp file nor the
\* destination; the unsupported-type message carries the detected type.
C6_EarlyFailureLeavesNothing ==
  LET r == inv[Main]
  IN  (r.pc = "done" /\ r.status = "failed" /\ r.fail.fmt \in EarlyFailures)
      => /\ r.decomp = ""
         /\ SamePath(fs, r.fs0, tempsrc_of(r.dest))
         /\ SamePath(fs, r.fs0, r.dest)
         /\ r.fail.fmt = MsgUnsupported => r.fail.args = <<r.ftype>>

\* C7: a source of size zero ends the run with the "0 bytes" failure whatever copy,
\* deep_check and the destination are, before the type is detected or a decompressor
\* is called.
C7_ZeroByteRejected ==
  LET r == inv[Main]
  IN  (r.srcimg # NoFile /\ Size(r.srcimg) = 0)
      => /\ r.pc = "done" /\ r.status = "failed"
         /\ r.fail = Fail(MsgZero, <<r.src>>)
         /\ ~r.detected /\ r.decomp = ""

\* an empty source was rejected although the destination's directory does not exist
C7_Witness ==
  LET r == inv[Main]
  IN  /\ r.pc = "done" /\ r.psrc = SrcEmpty /\ r.pdest = DestNoDir
      /\ r.copy /\ r.deep_check
      /\ r.fail.fmt = MsgZero

Tails(s) == {SubSeq(s, k, Len(s)) : k \in 1..(Len(s) + 1)}

Heads(s) == {SubSeq(s, 1, k) : k \in 0..Len(s)}

HasChar(s, c) == \E k \in 1..Len(s) : s[k] = c

IsLastSegment(t, s) ==
  t \in Tails(s) /\ ~HasChar(t, "/") /\ (Len(t) = Len(s) \/ s[Len(s) - Len(t)] = "/")

IsCutAtQuery(u, t) ==
  u \in Heads(t) /\ ~HasChar(u, "?") /\ (Len(u) = Len(t) \/ t[Len(u) + 1] = "?")

SuffixRules ==
  << [suf |-> ExtGz, add |-> <<>>], [suf |-> ExtBz2, add |-> <<>>], [suf |-> ExtXz, add |-> <<>>],
     [suf |-> ExtLzma, add |-> <<>>], [suf |-> ExtTxz, add |-> ExtTar], [suf |-> ExtTlz, add |-> ExtTar] >>

Rewritten(name, out) ==
  \/ \E k \in 1..Len(SuffixRules) :
       /\ EndsWith(name, SuffixRules[k].suf)
       /\ \A j \in 1..(k - 1) : ~EndsWith(name, SuffixRules[j].suf)
       /\ out = DropLast(name, Len(SuffixRules[k].suf)) \o SuffixRules[k].add
  \/ /\ \A k \in 1..Len(SuffixRules) : ~EndsWith(name, SuffixRules[k].suf)
     /\ out = name

UrlRests(src) ==
  {SubSeq(src, Len(sch) + Len(SchemeSep) + 1, Len(src)) :
     sch \in {x \in Schemes : StartsWith(src, x \o SchemeSep)}}

\* C8: the derived name is the last path segment (for a URL of a known scheme: the
\* last segment after the scheme separator, cut at the first "?") rewritten by the
\* first matching suffix rule, or unchanged when no rule matches.
C8_DerivedName ==
  dres.done =>
    /\ IF UrlRests(dsrc) # {}
       THEN \A r \in UrlRests(dsrc) : \E seg \in Tails(r) : \E u \in Heads(seg) :
              IsLastSegment(seg, r) /\ IsCutAtQuery(u, seg) /\ Rewritten(u, dres.name)
       ELSE \E seg \in Tails(dsrc) : IsLastSegment(seg, dsrc) /\ Rewritten(seg, dres.name)
    /\ dsrc = ExPkg => dres.name = <<"p","k","g",".","t","a","r">>
    /\ dsrc = ExArchive => dres.name = <<"a","r","c","h","i","v","e",".","t","a","r">>
    /\ dsrc = ExUrl => dres.name = <<"f","i","l","e">>

\* the URL with a query string has been derived to "file"
C8_Witness == dres.done /\ dsrc = ExUrl /\ dres.name = <<"f","i","l","e">>

HasTemp(r) == r.tempsrc # <<>>

\* C9: the temp path depends on the base name of the destination alone, so two
\* invocations whose destinations share it share the temp file; for one and the same
\* destination outside the scratch directory, once both have ended, the destination
\* holds what the invocation whose copyfile moved last put there.
C9_SharedTempPath ==
  \A i, j \in Procs :
    /\ (HasTemp(inv[i]) /\ HasTemp(inv[j]) /\ basename(inv[i].dest) = basename(inv[j].dest))
         => inv[i].tempsrc = inv[j].tempsrc
    /\ (/\ i # j /\ inv[i].pc = "done" /\ inv[j].pc = "done"
        /\ inv[i].dest = inv[j].dest /\ inv[i].dest # inv[i].tempsrc
        /\ inv[i].cf.last)
         => (IsFile(fs, inv[i].dest) /\ fs[inv[i].dest] = inv[i].cf.srcfile)

\* an invocation has moved to its destination the bytes of the other one's source
C9_Witness ==
  \E i, j \in Procs :
    /\ i # j
    /\ inv[i].pc = "done" /\ inv[i].status = "ok" /\ inv[i].changed
    /\ inv[j].srcimg # NoFile /\ inv[i].srcimg # NoFile
    /\ inv[i].srcimg.data # inv[j].srcimg.data
    /\ inv[i].cf.srcfile.data = inv[j].srcimg.data
    /\ IsFile(fs, inv[i].dest) /\ fs[inv[i].dest].data = inv[j].srcimg.data

\* C10: a destination that was created or whose bytes differ after the run means
\* that the run succeeded and returned changed; a failed or unchanged run has left
\* the destination as it was (stated for a local source and runs that did not fail
\* while the attributes were applied).
C10_NoUnreportedWrite ==
  LET r == inv[Main]
  IN  (r.pc = "done" /\ r.src = r.psrc /\ r.fail.fmt # MsgAttrs /\ ~SamePath(fs, r.fs0, r.dest))
      => (r.status = "ok" /\ r.changed)

====
